---- MODULE Spec2Model ----
(***************************************************************************)
(* A model of api_dto: the DTO decorator (field normalization), the        *)
(* serialization engine (to_dict, enum coercion) and the sensitive-field   *)
(* auditor with its process-wide singleton configuration.                  *)
(*                                                                         *)
(* Text is a sequence of one-character strings, so that str.lower(),       *)
(* str.endswith() and tuple membership are computed, not assumed.          *)
(***************************************************************************)
EXTENDS Integers, Sequences, FiniteSets, TLC

VARIABLES
    enabled,              \* SensitiveFields.enabled
    log_mode,             \* SensitiveFields.log_mode
    _SENSITIVE_FIELDS,    \* SensitiveFields._SENSITIVE_FIELDS (a tuple used as a set)
    _SENSITIVE_SUFFIXES,  \* SensitiveFields._SENSITIVE_SUFFIXES (a tuple used as a set)
    klass,                \* the class object the decorator works on
    op,                   \* the last public call
    arg,                  \* its argument(s)
    ret,                  \* its outcome: a returned value or a raised exception
    log                   \* the log records it emitted

vars == <<enabled, log_mode, _SENSITIVE_FIELDS, _SENSITIVE_SUFFIXES, klass, op, arg, ret, log>>

(***************************************************************************)
(* Text                                                                    *)
(***************************************************************************)
s_api_key    == <<"a","p","i","_","k","e","y">>
s_session_id == <<"s","e","s","s","i","o","n","_","i","d">>
s_password   == <<"p","a","s","s","w","o","r","d">>
s_token      == <<"t","o","k","e","n">>
s__id        == <<"_","i","d">>
s__key       == <<"_","k","e","y">>
s_Token      == <<"T","o","k","e","n">>
s_TOKEN      == <<"T","O","K","E","N">>
s_user_id    == <<"u","s","e","r","_","i","d">>
s_user_ID    == <<"u","s","e","r","_","I","D">>
s_identifier == <<"i","d","e","n","t","i","f","i","e","r">>
s_name       == <<"n","a","m","e">>
s_items      == <<"i","t","e","m","s">>
s_color      == <<"c","o","l","o","r">>
s_secret     == <<"s","e","c","r","e","t">>
s__no        == <<"_","n","o">>

UpperToLower ==
    ("A" :> "a") @@ ("B" :> "b") @@ ("C" :> "c") @@ ("D" :> "d") @@ ("E" :> "e") @@
    ("F" :> "f") @@ ("G" :> "g") @@ ("H" :> "h") @@ ("I" :> "i") @@ ("J" :> "j") @@
    ("K" :> "k") @@ ("L" :> "l") @@ ("M" :> "m") @@ ("N" :> "n") @@ ("O" :> "o") @@
    ("P" :> "p") @@ ("Q" :> "q") @@ ("R" :> "r") @@ ("S" :> "s") @@ ("T" :> "t") @@
    ("U" :> "u") @@ ("V" :> "v") @@ ("W" :> "w") @@ ("X" :> "x") @@ ("Y" :> "y") @@
    ("Z" :> "z")

\* str.lower()
lower(s) == [i \in 1..Len(s) |-> IF s[i] \in DOMAIN UpperToLower THEN UpperToLower[s[i]] ELSE s[i]]

\* str.endswith(tuple_of_suffixes)
endswith(s, suffixes) ==
    \E x \in suffixes : Len(x) <= Len(s) /\ SubSeq(s, Len(s) - Len(x) + 1, Len(s)) = x

(***************************************************************************)
(* The singleton configuration                                             *)
(***************************************************************************)
\* SensitiveFields(): the singleton as the readers see it
SensitiveFields ==
    [enabled |-> enabled, log_mode |-> log_mode,
     fields |-> _SENSITIVE_FIELDS, suffixes |-> _SENSITIVE_SUFFIXES]

\* the class attributes a fresh process starts with
DefaultFields == {s_api_key, s_session_id, s_password, s_token}
DefaultSuffixes == {s__id, s__key}

\* an argument of initialize(fields=..., suffixes=...): None, one text, or a collection
ArgNone == [t |-> "None"]
ArgStr(s) == [t |-> "str", s |-> s]
ArgColl(S) == [t |-> "coll", names |-> S]

\* Python truthiness of such an argument: `if fields:`
Truthy(a) ==
    CASE a.t = "None" -> FALSE
      [] a.t = "str"  -> Len(a.s) > 0
      [] a.t = "coll" -> a.names # {}

\* `if isinstance(fields, str): fields = (fields,)` followed by set(fields)
AsSet(a) == IF a.t = "str" THEN {a.s} ELSE a.names

\* one of the two set updates of initialize
\* (variant) replace is ignored: the call always merges
UpdateSet_alwaysMerge(old, a, replace) == IF Truthy(a) THEN old \cup AsSet(a) ELSE old

UpdateSet(old, a, replace) ==
    IF Truthy(a)
    THEN IF replace THEN AsSet(a) ELSE old \cup AsSet(a)
    ELSE old

FieldArgs == {ArgNone, ArgColl({}), ArgStr(s_secret)}
SuffixArgs == {ArgNone, ArgColl({}), ArgColl({s__no})}

NoValue == [kind |-> "no value"]
NoExc == [type |-> "None"]
Returned(v) == [status |-> "ok", value |-> v, exc |-> NoExc]
Raised(e) == [status |-> "raise", value |-> NoValue, exc |-> e]

\* SensitiveFields.initialize
initialize(en, f, sfx, replace, lm) ==
    /\ enabled' = en
    /\ log_mode' = lm
    /\ _SENSITIVE_FIELDS' = UpdateSet(_SENSITIVE_FIELDS, f, replace)
    /\ _SENSITIVE_SUFFIXES' = UpdateSet(_SENSITIVE_SUFFIXES, sfx, replace)
    /\ op' = "initialize"
    /\ arg' = [enabled |-> en, fields |-> f, suffixes |-> sfx, replace |-> replace, log_mode |-> lm]
    /\ ret' = Returned([kind |-> "None"])
    /\ log' = <<>>
    /\ UNCHANGED klass

Initialize ==
    \E en \in BOOLEAN, f \in FieldArgs, sfx \in SuffixArgs, replace \in BOOLEAN,
       lm \in {"warn", "strict"} :
        initialize(en, f, sfx, replace, lm)

(***************************************************************************)
(* Raw values and enum types                                                *)
(***************************************************************************)
\* raw values: None, numbers, text
None == [kind |-> "None"]
Num(i) == [kind |-> "int", i |-> i]
Str(s) == [kind |-> "str", s |-> s]
\* an enum member: its enum type, its name and its underlying value
Member(e, n, v) == [kind |-> "member", enum |-> e, name |-> n, value |-> v]

\* the enum types, each the sequence of its members in definition order
Enums ==
    [Color  |-> <<Member("Color", <<"R","E","D">>, Num(1)),
                  Member("Color", <<"G","R","E","E","N">>, Num(2))>>,
     Status |-> <<Member("Status", <<"A","C","T","I","V","E">>, Str(<<"a","c","t","i","v","e">>)),
                  Member("Status", <<"D","o","n","e">>, Str(<<"f","i","n">>))>>,
     Mode   |-> <<Member("Mode", <<"O","N">>, Str(<<"o","f","f">>)),
                  Member("Mode", <<"O","F","F">>, Str(<<"x">>)),
                  Member("Mode", <<"o","f","f">>, Num(0))>>,
     Empty  |-> <<>>]

EnumTypes == DOMAIN Enums

Texts ==
    {<<"r","e","d">>, <<"R","E","D">>, <<"R","e","d">>, <<"g","r","e","e","n">>,
     <<"a","c","t","i","v","e">>, <<"A","c","t","i","v","e">>, <<"d","o","n","e">>,
     <<"D","O","N","E">>, <<"f","i","n">>, <<"F","I","N">>, <<"o","n">>, <<"O","n">>,
     <<"o","f","f">>, <<"O","F","F">>, <<"O","f","f">>, <<"x">>, <<"X">>, <<>>}

AllMembers == UNION {{Enums[e][i] : i \in 1..Len(Enums[e])} : e \in EnumTypes}

(***************************************************************************)
(* Values: DTO instances and what dataclasses.asdict makes of them         *)
(***************************************************************************)
Scalar == [kind |-> "scalar"]
Dict(items) == [kind |-> "dict", items |-> items]          \* items: <<[k, v], ...>>
List(items) == [kind |-> "list", items |-> items]
Dto(cls, items) == [kind |-> "dto", cls |-> cls, items |-> items]
\* an object that is no dataclass but exposes to_dict(), returning Dict(items)
Obj(cls, items) == [kind |-> "obj", cls |-> cls, items |-> items]
KV(k, v) == [k |-> k, v |-> v]

\* dataclasses.asdict: dataclass instances become dicts, lists and dicts are
\* rebuilt element by element, anything else is deep-copied as it is
RECURSIVE asdict(_)
asdict(o) ==
    CASE o.kind = "dto"  -> Dict([i \in 1..Len(o.items) |-> KV(o.items[i].k, asdict(o.items[i].v))])
      [] o.kind = "dict" -> Dict([i \in 1..Len(o.items) |-> KV(o.items[i].k, asdict(o.items[i].v))])
      [] o.kind = "list" -> List([i \in 1..Len(o.items) |-> asdict(o.items[i])])
      [] OTHER -> o

(***************************************************************************)
(* The auditor                                                             *)
(***************************************************************************)
Warning(owner, key) == [level |-> "warning", owner |-> owner, key |-> key]
Error(owner, key) == [level |-> "error", owner |-> owner, key |-> key]
AttributeError(owner, key) == [type |-> "AttributeError", owner |-> owner, key |-> key]

\* (variant) the suffix test is dropped
KeyIsSensitive_noSuffix(key, sf) == lower(key) \in sf.fields

\* line 220: the test on one key
KeyIsSensitive(key, sf) ==
    LET key_lower == lower(key)
    IN  key_lower \in sf.fields \/ endswith(key_lower, sf.suffixes)

\* (variant) warn mode raises as strict mode does
OnHit_warnRaises(owner, key, sf, acc) ==
    [log |-> Append(acc.log, Error(owner, key)), exc |-> AttributeError(owner, key)]

\* lines 221-225: what a hit does, by log_mode; acc = [log, exc]
OnHit(owner, key, sf, acc) ==
    IF sf.log_mode = "warn"
    THEN [acc EXCEPT !.log = Append(@, Warning(owner, key))]
    ELSE IF sf.log_mode = "strict"
         THEN [log |-> Append(acc.log, Error(owner, key)), exc |-> AttributeError(owner, key)]
         ELSE acc

RECURSIVE _warn_sensitive_fields(_, _, _, _), WarnItems(_, _, _, _, _), WarnList(_, _, _, _, _)

\* lines 230-235: the elements of a list value
WarnList(owner, elems, j, sf, acc) ==
    IF acc.exc # NoExc \/ j > Len(elems) THEN acc
    ELSE LET item == elems[j]
             a == CASE item.kind = "obj"  -> _warn_sensitive_fields(item.cls, Dict(item.items), sf, acc)
                    [] item.kind = "dict" -> _warn_sensitive_fields(owner, item, sf, acc)
                    [] OTHER -> acc
         IN  WarnList(owner, elems, j + 1, sf, a)

\* lines 216-235: the loop over data.items()
WarnItems(owner, items, i, sf, acc) ==
    IF acc.exc # NoExc \/ i > Len(items) THEN acc
    ELSE LET key == items[i].k
             value == items[i].v
             a1 == IF KeyIsSensitive(key, sf) THEN OnHit(owner, key, sf, acc) ELSE acc
             a2 == IF a1.exc # NoExc THEN a1
                   ELSE CASE value.kind = "dict" -> _warn_sensitive_fields(owner, value, sf, a1)
                          [] value.kind = "list" -> WarnList(owner, value.items, 1, sf, a1)
                          [] OTHER -> a1
         IN  WarnItems(owner, items, i + 1, sf, a2)

\* _warn_sensitive_fields(cls, data), with the singleton sf it reads and the
\* log and pending exception so far
_warn_sensitive_fields(owner, data, sf, acc) ==
    IF ~sf.enabled THEN acc ELSE WarnItems(owner, data.items, 1, sf, acc)

\* _to_dict(self): the outcome and the log records emitted
_to_dict(self, sf) ==
    LET data == asdict(self)
        w == _warn_sensitive_fields(self.cls, data, sf, [log |-> <<>>, exc |-> NoExc])
    IN  [ret |-> IF w.exc # NoExc THEN Raised(w.exc) ELSE Returned(data), log |-> w.log]

\* is_sensitive_field(value): None when disabled, else True or False
is_sensitive_field(value, sf) ==
    IF ~sf.enabled THEN [kind |-> "None"]
    ELSE IF value \in sf.fields \/ endswith(value, sf.suffixes)
         THEN [kind |-> "bool", b |-> TRUE]
         ELSE [kind |-> "bool", b |-> FALSE]

(***************************************************************************)
(* Inputs: instances of decorated classes                                  *)
(***************************************************************************)
\* how deep the generated instances nest containers
MaxDepth == 2

Inner(k) == Dto("Inner", <<KV(k, Scalar)>>)
Foreign(k) == Obj("Foreign", <<KV(k, Scalar)>>)

Leaves == {Inner(s_token), Inner(s_name), Foreign(s_user_id)}

RECURSIVE Nested(_)
Nested(d) ==
    IF d = 0 THEN Leaves
    ELSE LET p == Nested(d - 1)
         IN  p \cup {List(<<v, Inner(s_name)>>) : v \in p}
               \cup {List(<<Inner(s_name), v>>) : v \in p}
               \cup {Dict(<<KV(s_name, v)>>) : v \in p}

Names == {s_name, s_token, s_Token, s_TOKEN, s_user_id, s_user_ID, s_identifier,
          s_secret}

Instances ==
    {Dto("Outer", <<KV(k, Scalar)>>) : k \in Names}
      \cup {Dto("Outer", <<KV(s_token, Scalar), KV(s_name, Scalar), KV(s_user_ID, Scalar)>>)}
      \cup {Dto("Outer", <<KV(s_name, Scalar), KV(s_items, v)>>) : v \in Nested(MaxDepth)}
      \cup {Dto("Outer", <<KV(s_items, v), KV(s_Token, Scalar)>>) : v \in Nested(1)}
      \cup {Dto("Outer", <<KV(s_color, m)>>) : m \in AllMembers}

(***************************************************************************)
(* The calls                                                               *)
(***************************************************************************)
NoClass == [name |-> "none"]

\* instance.to_dict()
ToDict ==
    \E self \in Instances :
        LET r == _to_dict(self, SensitiveFields)
        IN  /\ op' = "to_dict"
            /\ arg' = self
            /\ ret' = r.ret
            /\ log' = r.log
            /\ UNCHANGED <<enabled, log_mode, _SENSITIVE_FIELDS, _SENSITIVE_SUFFIXES, klass>>

\* is_sensitive_field(name)
IsSensitiveField ==
    \E value \in Names :
        /\ op' = "is_sensitive_field"
        /\ arg' = value
        /\ ret' = Returned(is_sensitive_field(value, SensitiveFields))
        /\ log' = <<>>
        /\ UNCHANGED <<enabled, log_mode, _SENSITIVE_FIELDS, _SENSITIVE_SUFFIXES, klass>>

Init ==
    /\ enabled = TRUE
    /\ log_mode = "warn"
    /\ _SENSITIVE_FIELDS = DefaultFields
    /\ _SENSITIVE_SUFFIXES = DefaultSuffixes
    /\ klass = NoClass
    /\ op = "none"
    /\ arg = NoValue
    /\ ret = Returned(NoValue)
    /\ log = <<>>

Next == Initialize \/ ToDict \/ IsSensitiveField

Spec == Init /\ [][Next]_vars

(***************************************************************************)
(* Properties of the auditor                                               *)
(***************************************************************************)
\* the name/suffix rule of the auditor, stated on its own: the lower-cased key
\* is a sensitive name or ends with a sensitive suffix
RuleMatches(key) ==
    \/ \E n \in _SENSITIVE_FIELDS : lower(key) = n
    \/ \E x \in _SENSITIVE_SUFFIXES :
          /\ Len(x) <= Len(key)
          /\ \A i \in 1..Len(x) : lower(key)[Len(key) - Len(x) + i] = x[i]

TopKeys(data) == {data.items[i].k : i \in 1..Len(data.items)}

\* every (owner label, key) of the mappings and lists of a value, at any depth;
\* an object exposing to_dict contributes its own mapping under its own label
RECURSIVE LabelledKeys(_, _)
LabelledKeys(owner, v) ==
    CASE v.kind = "dict" ->
            UNION {{<<owner, v.items[i].k>>} \cup LabelledKeys(owner, v.items[i].v) :
                   i \in 1..Len(v.items)}
      [] v.kind = "list" -> UNION {LabelledKeys(owner, v.items[i]) : i \in 1..Len(v.items)}
      [] v.kind = "obj" ->
            UNION {{<<v.cls, v.items[i].k>>} \cup LabelledKeys(v.cls, v.items[i].v) :
                   i \in 1..Len(v.items)}
      [] OTHER -> {}

\* the number of key occurrences matching the rule, at any depth
RECURSIVE DeepCount(_)
SumOver(f) ==
    LET RECURSIVE Sum(_)
        Sum(i) == IF i = 0 THEN 0 ELSE f[i] + Sum(i - 1)
    IN  Sum(Len(f))
DeepCount(v) ==
    CASE v.kind \in {"dict", "obj"} ->
            SumOver([i \in 1..Len(v.items) |->
                       (IF RuleMatches(v.items[i].k) THEN 1 ELSE 0) + DeepCount(v.items[i].v)])
      [] v.kind = "list" -> SumOver([i \in 1..Len(v.items) |-> DeepCount(v.items[i])])
      [] OTHER -> 0

TopCount(data) == Cardinality({i \in 1..Len(data.items) : RuleMatches(data.items[i].k)})

RECURSIVE NestedKeys(_)
NestedKeys(v) ==
    CASE v.kind = "dict" ->
            UNION {{v.items[i].k} \cup NestedKeys(v.items[i].v) : i \in 1..Len(v.items)}
      [] v.kind = "list" -> UNION {NestedKeys(v.items[i]) : i \in 1..Len(v.items)}
      [] OTHER -> {}

\* C3: the audit reaches nested elements: a sensitive field of a DTO nested
\* under any number of mappings and lists is flagged when the parent is
\* serialized, by a warning in warn mode and by the error in strict mode
C3_NestedAlwaysFlagged ==
    (op = "to_dict" /\ enabled /\ \E k \in NestedKeys(asdict(arg)) : RuleMatches(k)) =>
        /\ log_mode = "warn" => \E i \in 1..Len(log) : RuleMatches(log[i].key)
        /\ log_mode = "strict" => ret.status = "raise"

\* C8: to_dict() of an instance whose field holds an enum member yields the
\* member's underlying value for that field, not the member
C8_EnumSerializedAsValue ==
    (op = "to_dict" /\ ret.status = "ok") =>
        \A i \in 1..Len(arg.items) :
            arg.items[i].v.kind = "member" => ret.value.items[i].v = arg.items[i].v.value

\* what the claimed fold makes of one set in one call
ClaimedFold(old, a, replace) ==
    IF a.t = "None" THEN old
    ELSE IF replace THEN AsSet(a) ELSE old \cup AsSet(a)

\* C9 as stated: every initialization call that supplies a set merges it
\* (replace = false) or replaces the set by exactly the supplied names (replace
\* = true), and a call that does not supply it leaves the set unchanged
C9_FoldAsStated ==
    [][op' = "initialize" =>
        /\ _SENSITIVE_FIELDS' = ClaimedFold(_SENSITIVE_FIELDS, arg'.fields, arg'.replace)
        /\ _SENSITIVE_SUFFIXES' = ClaimedFold(_SENSITIVE_SUFFIXES, arg'.suffixes, arg'.replace)]_vars

\* the fold with an empty argument counted as not supplied
AmendedFold(old, a, replace) ==
    IF a.t = "None" \/ (a.t = "str" /\ a.s = <<>>) \/ (a.t = "coll" /\ a.names = {}) THEN old
    ELSE IF replace THEN AsSet(a) ELSE old \cup AsSet(a)

\* to_dict() of an instance with one scalar field flags it exactly when the key
\* matches the sets as the calls so far left them
ReadBySerialization ==
    (op = "to_dict" /\ enabled /\ Len(arg.items) = 1 /\ arg.items[1].v = Scalar) =>
        (Len(log) = 1 <=> \/ lower(arg.items[1].k) \in _SENSITIVE_FIELDS
                          \/ endswith(lower(arg.items[1].k), _SENSITIVE_SUFFIXES))

\* C9 (amended): every initialization call that supplies a non-empty set (or
\* non-empty text) merges it (replace = false) or replaces the set by exactly
\* the supplied names (replace = true); a call that supplies none, or an empty
\* one, leaves the set unchanged; the next to_dict() reads the resulting sets
C9_FoldOfCalls ==
    /\ [][op' = "initialize" =>
            /\ _SENSITIVE_FIELDS' = AmendedFold(_SENSITIVE_FIELDS, arg'.fields, arg'.replace)
            /\ _SENSITIVE_SUFFIXES' = AmendedFold(_SENSITIVE_SUFFIXES, arg'.suffixes, arg'.replace)]_vars
    /\ [](ReadBySerialization)

C9_Witness ==
    /\ op = "initialize" /\ arg.replace
    /\ arg.fields = ArgStr(s_secret) /\ arg.suffixes = ArgColl({s__no})
    /\ _SENSITIVE_FIELDS = {s_secret}
    /\ _SENSITIVE_SUFFIXES = {s__no}

\* C10: is_sensitive(name) returns the boolean true iff the configuration is
\* enabled and name matches a sensitive name case-insensitively or ends with a
\* sensitive suffix, and the boolean false in every other case
C10_PredicateAsStated ==
    op = "is_sensitive_field" =>
        ret.value = [kind |-> "bool",
                     b |-> enabled /\ (\/ \E n \in _SENSITIVE_FIELDS : lower(n) = lower(arg)
                                       \/ endswith(arg, _SENSITIVE_SUFFIXES))]

(***************************************************************************)
(* Enum coercion                                                           *)
(***************************************************************************)
\* the largest number offered to the coercion
MaxInt == 3

CoercionInputs == {None} \cup {Num(i) : i \in 0..MaxInt} \cup {Str(t) : t \in Texts} \cup AllMembers

ValueError(value, enum_type) == [type |-> "ValueError", value |-> value, enum |-> enum_type]

\* enum_type(value): the member itself when value is one of the type's members,
\* else the first member whose underlying value equals value, else ValueError
EnumCall(enum_type, value) ==
    LET ms == Enums[enum_type]
        byValue == {i \in 1..Len(ms) : ms[i].value = value}
    IN  IF value.kind = "member" /\ value.enum = enum_type THEN Returned(value)
        ELSE IF byValue # {}
             THEN Returned(ms[CHOOSE i \in byValue : \A j \in byValue : i <= j])
             ELSE Raised(ValueError(value, enum_type))

\* (variant) the name loop compares the names as they are
NameLoop_caseSensitive(enum_type, value) ==
    LET ms == Enums[enum_type]
        byName == {i \in 1..Len(ms) : ms[i].name = value.s}
    IN  IF byName # {}
        THEN Returned(ms[CHOOSE i \in byName : \A j \in byName : i <= j])
        ELSE Raised(ValueError(value, enum_type))

\* lines 77-82: for e in enum_type: if e.name.lower() == value.lower(): return e
NameLoop(enum_type, value) ==
    LET ms == Enums[enum_type]
        byName == {i \in 1..Len(ms) : lower(ms[i].name) = lower(value.s)}
    IN  IF byName # {}
        THEN Returned(ms[CHOOSE i \in byName : \A j \in byName : i <= j])
        ELSE Raised(ValueError(value, enum_type))

\* _enum_hook(value, enum_type)
_enum_hook(value, enum_type) ==
    IF value = None THEN Returned(None)
    ELSE LET direct == EnumCall(enum_type, value)
         IN  IF direct.status = "ok" THEN direct
             ELSE IF value.kind = "str" THEN NameLoop(enum_type, value)
                  ELSE Raised(ValueError(value, enum_type))

EnumHook ==
    \E value \in CoercionInputs, enum_type \in EnumTypes :
        /\ op' = "_enum_hook"
        /\ arg' = [value |-> value, enum_type |-> enum_type]
        /\ ret' = _enum_hook(value, enum_type)
        /\ log' = <<>>
        /\ UNCHANGED <<enabled, log_mode, _SENSITIVE_FIELDS, _SENSITIVE_SUFFIXES, klass>>

NextEnum == EnumHook

SpecEnum == Init /\ [][NextEnum]_vars

\* the members of an enum type, as a set
MembersOf(e) == {Enums[e][i] : i \in 1..Len(Enums[e])}

\* C7 as stated: null yields null; else a value equal to a member's underlying
\* value yields that member; else a text equal to a member name regardless of
\* case yields that member; else the call fails naming the value and the type
C7_RuleAsStated ==
    op = "_enum_hook" =>
        LET v == arg.value
            ms == MembersOf(arg.enum_type)
        IN  IF v = None THEN ret = Returned(None)
            ELSE IF \E m \in ms : m.value = v
                 THEN ret.status = "ok" /\ ret.value \in ms /\ ret.value.value = v
                 ELSE IF v.kind = "str" /\ \E m \in ms : lower(m.name) = lower(v.s)
                      THEN /\ ret.status = "ok" /\ ret.value \in ms
                           /\ lower(ret.value.name) = lower(v.s)
                      ELSE ret = Raised(ValueError(v, arg.enum_type))

\* C7 (amended): null yields null; else a value that is a member of the enum
\* type yields itself and a value equal to a member's underlying value yields
\* that member; else a text equal to a member name regardless of case yields
\* that member; else the call fails naming the value and the type; the result
\* is never a non-member
C7_CoercionRule ==
    op = "_enum_hook" =>
        LET v == arg.value
            ms == MembersOf(arg.enum_type)
        IN  /\ ret.status = "ok" => ret.value = None \/ ret.value \in ms
            /\ IF v = None THEN ret = Returned(None)
               ELSE IF v \in ms THEN ret = Returned(v)
               ELSE IF \E m \in ms : m.value = v
                    THEN ret.status = "ok" /\ ret.value \in ms /\ ret.value.value = v
                    ELSE IF v.kind = "str" /\ \E m \in ms : lower(m.name) = lower(v.s)
                         THEN /\ ret.status = "ok" /\ ret.value \in ms
                              /\ lower(ret.value.name) = lower(v.s)
                         ELSE ret = Raised(ValueError(v, arg.enum_type))

\* text "off" for Mode: the value of ON wins over the names OFF and off
C7_Witness ==
    /\ op = "_enum_hook"
    /\ arg = [value |-> Str(<<"o","f","f">>), enum_type |-> "Mode"]
    /\ ret = Returned(Member("Mode", <<"O","N">>, Str(<<"o","f","f">>)))

(***************************************************************************)
(* Declared types                                                          *)
(***************************************************************************)
\* a plain class used as an annotation: int, str, an Enum class, a DTO class,
\* or bare list, dict, set
Class(name) == [cat |-> "class", name |-> name]
NoneType == Class("NoneType")
\* a subscripted generic: list[T], dict[K, V], set[T] (builtin) or typing.List[T],
\* typing.Dict[K, V], typing.Set[T]; args are the names of the type arguments
Generic(origin, typing, args) ==
    [cat |-> "generic", origin |-> origin, typing |-> typing, args |-> args]
\* X | Y (types.UnionType) or typing.Union[X, Y]; members are not unions
UnionOf(flavor, members) == [cat |-> "union", flavor |-> flavor, members |-> members]

\* typing.get_origin
get_origin(t) ==
    CASE t.cat = "class"   -> "None"
      [] t.cat = "generic" -> t.origin
      [] t.cat = "union"   -> t.flavor

\* `type(None) in args`, args being annotation.__args__
NoneInArgs(t) ==
    CASE t.cat = "class"   -> FALSE
      [] t.cat = "generic" -> \E i \in 1..Len(t.args) : t.args[i] = "NoneType"
      [] t.cat = "union"   -> NoneType \in t.members

\* _is_optional(annotation)
_is_optional(annotation) ==
    LET origin == get_origin(annotation)
    IN  IF origin = "types.UnionType" THEN NoneInArgs(annotation)
        ELSE IF origin = "None" THEN FALSE
        \* origin is annotation.__origin__ for every generic and typing.Union
        ELSE NoneInArgs(annotation)

\* `field_type | None`: unions are flat and hold each member once
OrNone(t) ==
    CASE t.cat = "union"   -> UnionOf(t.flavor, t.members \cup {NoneType})
      [] t.cat = "generic" ->
            UnionOf(IF t.typing THEN "typing.Union" ELSE "types.UnionType", {t, NoneType})
      [] t.cat = "class"   -> UnionOf("types.UnionType", {t, NoneType})

\* `get_origin(field_type) or field_type`, by name
OriginOrSelf(t) ==
    IF get_origin(t) = "None" THEN t.name ELSE get_origin(t)

(***************************************************************************)
(* Classes and the decorator                                               *)
(***************************************************************************)
MISSING == "MISSING"
TypeError(what, field_name) == [type |-> "TypeError", what |-> what, field |-> field_name]

\* a class object: annotations in order, the class attribute of every field
\* name (MISSING when absent), the marker attributes, the methods attached,
\* and the dataclass fields' defaults once it is a dataclass
NewClass(schema) ==
    [name |-> "Outer",
     annotations |-> [i \in 1..Len(schema) |-> [name |-> schema[i].name, type |-> schema[i].type]],
     attrs |-> [i \in 1..Len(schema) |-> schema[i].default],
     markers |-> {},
     methods |-> {},
     dataclass |-> FALSE,
     dc_defaults |-> <<>>]

\* lines 145-152: the default a field gets when the class has none
DefaultFor(origin, auto_collections) ==
    IF auto_collections /\ origin = "list" THEN "field(default_factory=list)"
    ELSE IF auto_collections /\ origin = "dict" THEN "field(default_factory=dict)"
    ELSE "None"

\* the loop of _make_nullable from field i on; r = [cls, annotations, exc]
RECURSIVE NullableLoop(_, _, _)
NullableLoop(r, i, auto_collections) ==
    IF i > Len(r.cls.annotations) THEN r
    ELSE LET field_type == r.cls.annotations[i].type
             field_name == r.cls.annotations[i].name
             annotations == IF ~_is_optional(field_type)
                            THEN [r.annotations EXCEPT ![i].type = OrNone(field_type)]
                            ELSE r.annotations
             origin == OriginOrSelf(field_type)
         IN  IF origin = "set"
             THEN [r EXCEPT !.annotations = annotations,
                            !.exc = TypeError("uses set", field_name)]
             ELSE NullableLoop(
                    [r EXCEPT !.annotations = annotations,
                              !.cls.attrs[i] = IF @ = MISSING
                                               THEN DefaultFor(origin, auto_collections)
                                               ELSE @],
                    i + 1, auto_collections)

\* _make_nullable(cls, auto_collections): the class as it is left and the
\* exception raised, if any; __annotations__ is assigned after the loop only
_make_nullable(cls, auto_collections) ==
    LET r == NullableLoop([cls |-> cls, annotations |-> cls.annotations, exc |-> NoExc],
                          1, auto_collections)
    IN  IF r.exc # NoExc THEN [cls |-> r.cls, exc |-> r.exc]
        ELSE [cls |-> [r.cls EXCEPT !.annotations = r.annotations], exc |-> NoExc]

\* make_nullable(auto_collections=...)(cls)
make_nullable(cls, auto_collections) ==
    _make_nullable([cls EXCEPT !.markers = @ \cup {"_nullable_added"}], auto_collections)

\* dataclasses.dataclass()(cls): a field without a default after one with a
\* default is refused; a Field object is taken off the class
dataclass(cls) ==
    LET n == Len(cls.annotations)
        bad == {i \in 2..n : cls.attrs[i] = MISSING /\ \E j \in 1..(i - 1) : cls.attrs[j] # MISSING}
    IN  IF bad # {}
        THEN [cls |-> cls,
              exc |-> TypeError("non-default argument follows default argument",
                                cls.annotations[CHOOSE i \in bad : \A j \in bad : i <= j].name)]
        ELSE [cls |-> [cls EXCEPT !.dataclass = TRUE,
                                  !.dc_defaults = cls.attrs,
                                  !.attrs = [i \in 1..n |->
                                               IF cls.attrs[i] \in {"field(default_factory=list)",
                                                                    "field(default_factory=dict)"}
                                               THEN MISSING ELSE cls.attrs[i]]],
              exc |-> NoExc]

\* _remove_dataclass(cls)
_remove_dataclass(cls) == [cls EXCEPT !.dataclass = FALSE, !.dc_defaults = <<>>]

\* add_serializable()(cls)
add_serializable(cls) ==
    [cls EXCEPT !.markers = @ \cup {"_serializable_added"},
                !.methods = @ \cup {"to_dict", "from_dict", "from_http_request",
                                    "to_json", "from_json"}]

\* the decorator from the point where the class is known not to be marked
DecorateUnmarked(cls, optional, serializable, auto_collections) ==
    LET has_nullable == "_nullable_added" \in cls.markers
        has_serialization == "_serializable_added" \in cls.markers
        c1 == IF cls.dataclass THEN _remove_dataclass(cls) ELSE cls
        r2 == IF optional /\ ~has_nullable THEN make_nullable(c1, auto_collections)
              ELSE [cls |-> c1, exc |-> NoExc]
        r3 == IF r2.exc # NoExc \/ r2.cls.dataclass THEN r2 ELSE dataclass(r2.cls)
        c4 == IF serializable /\ ~has_serialization THEN add_serializable(r3.cls) ELSE r3.cls
    IN  IF r3.exc # NoExc THEN r3
        ELSE [cls |-> [c4 EXCEPT !.markers = @ \cup {"_is_api_dto"}], exc |-> NoExc]

\* (variant) the marker of an earlier decoration is not looked at
api_dto_ignoresMarker(cls, optional, serializable, auto_collections) ==
    DecorateUnmarked(cls, optional, serializable, auto_collections)

\* api_dto(cls, optional=..., serializable=..., auto_collections=...)
api_dto(cls, optional, serializable, auto_collections) ==
    IF "_is_api_dto" \in cls.markers THEN [cls |-> cls, exc |-> NoExc]
    ELSE DecorateUnmarked(cls, optional, serializable, auto_collections)

(***************************************************************************)
(* Inputs: class declarations                                              *)
(***************************************************************************)
T_str == Class("str")
T_list_str == Generic("list", FALSE, <<"str">>)
T_List_int == Generic("list", TRUE, <<"int">>)
T_dict == Generic("dict", FALSE, <<"str", "int">>)
T_set_int == Generic("set", FALSE, <<"int">>)
T_Set_int == Generic("set", TRUE, <<"int">>)

FieldTypes ==
    {T_str, Class("Color"), Class("list"), Class("set"),
     T_list_str, T_List_int, T_dict, T_set_int, T_Set_int,
     UnionOf("types.UnionType", {T_str, NoneType}),
     UnionOf("types.UnionType", {T_list_str, NoneType}),
     UnionOf("typing.Union", {T_List_int, NoneType}),
     UnionOf("types.UnionType", {T_dict, NoneType}),
     UnionOf("types.UnionType", {T_set_int, NoneType}),
     UnionOf("typing.Union", {T_Set_int, NoneType}),
     UnionOf("types.UnionType", {Class("int"), T_str})}

Field(name, type, default) == [name |-> name, type |-> type, default |-> default]

Schemas ==
    {<<Field(s_items, t, d)>> : t \in FieldTypes, d \in {MISSING, "user"}}
      \cup {<<Field(s_name, T_str, d1), Field(s_items, t, d)>> :
              t \in FieldTypes, d \in {MISSING, "user"}, d1 \in {MISSING, "user"}}

(***************************************************************************)
(* The calls on classes                                                    *)
(***************************************************************************)
\* a class statement, plain or already under @dataclass
DeclareClass ==
    \E schema \in Schemas, predataclass \in BOOLEAN :
        LET c == NewClass(schema)
            d == dataclass(c)
        IN  /\ predataclass => d.exc = NoExc
            /\ klass' = IF predataclass THEN d.cls ELSE c
            /\ op' = "class"
            /\ arg' = [schema |-> schema, dataclass |-> predataclass]
            /\ ret' = Returned([kind |-> "class"])
            /\ log' = <<>>
            /\ UNCHANGED <<enabled, log_mode, _SENSITIVE_FIELDS, _SENSITIVE_SUFFIXES>>

\* api_dto(...)(klass)
ApiDto ==
    \E optional \in BOOLEAN, serializable \in BOOLEAN, auto_collections \in BOOLEAN :
        LET r == api_dto(klass, optional, serializable, auto_collections)
        IN  /\ klass # NoClass
            /\ klass' = r.cls
            /\ op' = "api_dto"
            /\ arg' = [cls |-> klass, optional |-> optional, serializable |-> serializable,
                       auto_collections |-> auto_collections]
            /\ ret' = IF r.exc # NoExc THEN Raised(r.exc) ELSE Returned([kind |-> "class"])
            /\ log' = <<>>
            /\ UNCHANGED <<enabled, log_mode, _SENSITIVE_FIELDS, _SENSITIVE_SUFFIXES>>

\* make_nullable(...)(klass)
MakeNullable ==
    \E auto_collections \in BOOLEAN :
        LET r == make_nullable(klass, auto_collections)
        IN  /\ klass # NoClass
            /\ klass' = r.cls
            /\ op' = "make_nullable"
            /\ arg' = [cls |-> klass, auto_collections |-> auto_collections]
            /\ ret' = IF r.exc # NoExc THEN Raised(r.exc) ELSE Returned([kind |-> "class"])
            /\ log' = <<>>
            /\ UNCHANGED <<enabled, log_mode, _SENSITIVE_FIELDS, _SENSITIVE_SUFFIXES>>

NextNorm == DeclareClass \/ ApiDto \/ MakeNullable

SpecNorm == Init /\ [][NextNorm]_vars

(***************************************************************************)
(* Properties of the decorator                                             *)
(***************************************************************************)
\* the alternatives of a declared type other than None: its unwrapped type
Alternatives(t) == IF t.cat = "union" THEN t.members \ {NoneType} ELSE {t}

IsSetType(t) == (t.cat = "class" /\ t.name = "set") \/ (t.cat = "generic" /\ t.origin = "set")
IsSequenceType(t) == (t.cat = "class" /\ t.name = "list") \/ (t.cat = "generic" /\ t.origin = "list")
IsMappingType(t) == (t.cat = "class" /\ t.name = "dict") \/ (t.cat = "generic" /\ t.origin = "dict")

SetFields(cls) ==
    {i \in 1..Len(cls.annotations) : \E t \in Alternatives(cls.annotations[i].type) : IsSetType(t)}

\* the default a field has: the dataclass field's once the class is a dataclass
EffectiveDefault(cls, i) == IF cls.dataclass THEN cls.dc_defaults[i] ELSE cls.attrs[i]

\* C4: decorating (with normalization on) a class that declares a field whose
\* unwrapped type is an unordered set fails with the error naming such a
\* field and yields no class, the set type bare or wrapped as nullable
C4_SetAlwaysRejected ==
    (op = "api_dto" /\ arg.optional /\ arg.cls.markers = {} /\ SetFields(arg.cls) # {}) =>
        /\ ret.status = "raise"
        /\ ret.value = NoValue
        /\ ret.exc.type = "TypeError"
        /\ \E i \in SetFields(arg.cls) : ret.exc.field = arg.cls.annotations[i].name

\* C5: after normalization (collection defaults on), a field that had no
\* default has an empty-sequence default when its unwrapped type is a
\* sequence, an empty-mapping default when it is a mapping, and null
\* otherwise; a field that had a default keeps it
C5_DefaultsAsStated ==
    (/\ op = "api_dto" /\ arg.optional /\ arg.auto_collections
     /\ arg.cls.markers = {} /\ ret.status = "ok") =>
        \A i \in 1..Len(klass.annotations) :
            LET declared == arg.cls.attrs[i]
                alts == Alternatives(arg.cls.annotations[i].type)
            IN  EffectiveDefault(klass, i) =
                    IF declared # MISSING THEN declared
                    ELSE IF \E t \in alts : IsSequenceType(t) THEN "field(default_factory=list)"
                    ELSE IF \E t \in alts : IsMappingType(t) THEN "field(default_factory=dict)"
                    ELSE "None"

\* C6: normalization is idempotent in field types and defaults, every field
\* type it leaves is nullable (None is one alternative of it, once), and
\* decorating an already decorated class again, with any options, leaves the
\* class as it is
C6_Idempotent ==
    klass # NoClass =>
        /\ \A a1 \in BOOLEAN, a2 \in BOOLEAN :
              LET r1 == _make_nullable(klass, a1)
              IN  r1.exc = NoExc =>
                    /\ _make_nullable(r1.cls, a2) = r1
                    /\ \A i \in 1..Len(r1.cls.annotations) :
                          LET t == r1.cls.annotations[i].type
                          IN  /\ t.cat = "union"
                              /\ NoneType \in t.members
                              /\ t.members \ {NoneType} # {}
                              /\ \A m \in t.members : m.cat # "union"
        /\ "_is_api_dto" \in klass.markers =>
              \A o \in BOOLEAN, s \in BOOLEAN, a \in BOOLEAN :
                  api_dto(klass, o, s, a) = [cls |-> klass, exc |-> NoExc]
        /\ (op = "api_dto" /\ "_is_api_dto" \in arg.cls.markers) =>
              klass = arg.cls /\ ret.status = "ok"

\* a second decoration, with other options, of a class with a sequence field
C6_Witness ==
    /\ op = "api_dto" /\ "_is_api_dto" \in arg.cls.markers
    /\ ~arg.optional /\ ~arg.auto_collections
    /\ klass.dataclass
    /\ \E i \in 1..Len(klass.annotations) :
          /\ klass.annotations[i].type = UnionOf("types.UnionType", {T_list_str, NoneType})
          /\ klass.dc_defaults[i] = "field(default_factory=list)"

====
